---- MODULE Spec2Model ----
(***************************************************************************)
(* Model of implementation/SAMAT/train.py: main()'s epoch loop, the sweep  *)
(* adv_learning(), and the pure function calculate_acc_adv_acc().          *)
(*                                                                         *)
(* Spec     : a run of main() from the device check to its end or abort.   *)
(* SpecAcc  : calculate_acc_adv_acc() applied to a drawn batch.            *)
(*                                                                         *)
(* utility.trades (AT_TRAIN, AT_VAL), sam.SAM and utility.meters are not   *)
(* part of train.py; their steps are modelled from the design document.    *)
(***************************************************************************)
EXTENDS Integers, Sequences, FiniteSets, Bags, TLC

\* ------------------------------------------------------------- bounds
\* args.epochs ranges over 0..MaxEpochs.
MaxEpochs == 25
\* len(dataset.train) = len(dataset.test) = NumBatches.
NumBatches == 11
\* number of output classes of the score vectors given to calculate_acc_adv_acc
NumClasses == 5

\* ------------------------------------------------- program constants
\* `if (batch_idx % 10) == 0` (train.py:123)
PrintEvery == 10
\* `adv_pred.topk(5)`, `pred.topk(5)` (train.py:64-65)
TopN == 5
\* `for k in range(1,5)` (train.py:71): k = 1..MaxK
MaxK == 4

\* Score values of a prediction vector (two values are enough for ties).
ScoreValues == {0, 1}
\* Per-sample top-1 hit of a batch as cached into the meters (0.0 / 1.0).
HitValues == {0, 1}

Unbound == "unbound"
None == "None"

VARIABLES
  pc,           \* position in main() / adv_learning()
  cuda,         \* torch.cuda.is_available()
  sgd,          \* args.sgd
  epochs,       \* args.epochs
  device,       \* main's local `device`
  warned,       \* the warning of line 147 was printed
  created,      \* objects constructed so far by main()
  epoch,        \* loop variable of main()
  mode,         \* adv_learning's `mode`
  batch_idx,    \* adv_learning's `batch_idx`
  gradEnabled,  \* torch's global gradient-tracking switch
  params,       \* number of optimizer updates applied to the model parameters
  sweepStart,   \* params and optimizer call count when the current sweep began
  opt,          \* optimizer: [kind, pending |-> an ascend awaits its descend, calls |-> call history]
  lastStep,     \* step function called for the current batch
  meters,       \* [train |-> ..., val |-> ...] the two meter dictionaries
  flushed,      \* adv_learning's local `results` of the last flush
  results,      \* main's local `results`
  best_val,     \* main's local `best_val`, a rational <<num, den>>
  scalars,      \* bag of writer.add_scalar records <<namespace, key, step>>
  files,        \* set of torch.save records <<file name, epoch>>
  events,       \* history of main()'s epoch events <<event, epoch>>
  lrSteps,      \* number of scheduler.step() calls
  valHist,      \* validation top-1 accuracy flushed in each epoch so far
  call,         \* arguments of calculate_acc_adv_acc (SpecAcc)
  ret           \* what calculate_acc_adv_acc cached and returned (SpecAcc)

mainVars == <<pc, cuda, sgd, epochs, device, warned, created, epoch, mode, batch_idx,
              gradEnabled, params, sweepStart, opt, lastStep, meters, flushed,
              results, best_val, scalars, files, events, lrSteps, valHist>>
accVars == <<call, ret>>
vars == <<pc, cuda, sgd, epochs, device, warned, created, epoch, mode, batch_idx,
          gradEnabled, params, sweepStart, opt, lastStep, meters, flushed,
          results, best_val, scalars, files, events, lrSteps, valHist,
                 call, ret>>

\* ------------------------------------------------------------ helpers
\* a / b > c / d for rationals <<a, b>>, <<c, d>> with positive denominators
RatGt(x, y) == x[1] * y[2] > y[1] * x[2]
RatEq(x, y) == x[1] * y[2] = y[1] * x[2]

\* get_meters(mode, model): the meters of a dictionary start empty.
\* loss_n: values cached into natural_loss (= robust_loss);
\* topk_n: hits cached into each topK_accuracy / topK_adv_accuracy meter;
\* top1_sum: sum of the hits cached into top1_accuracy;
\* best: value cached into the reserved meter best_val (val dictionary only).
EmptyMeters == [loss_n |-> 0, topk_n |-> 0, top1_sum |-> 0, best |-> None]

TopKNames == {"top1_accuracy", "top2_accuracy", "top3_accuracy", "top4_accuracy",
              "top1_adv_accuracy", "top2_adv_accuracy", "top3_adv_accuracy",
              "top4_adv_accuracy"}

\* keys of the record flush_scalar_meters returns for a dictionary
FlushKeys(m) ==
  {"natural_loss", "robust_loss"} \cup TopKNames
     \cup (IF m = "val" THEN {"best_val"} ELSE {})

\* flush_scalar_meters(meters): the snapshot, and the reset accumulators
FlushResult(mt) == [top1_accuracy |-> <<mt.top1_sum, mt.topk_n>>, samples |-> mt.topk_n,
                    losses |-> mt.loss_n]
FlushReset(mt) == [EmptyMeters EXCEPT !.best = mt.best]

\* train.py:123  the batches whose hit lists calculate_acc_adv_acc caches
CachesAccuracy(b) == (b % PrintEvery) = 0

\* train.py:114-117  the step function adv_learning calls for a batch
StepFn_AlwaysTrain(m) == "AT_TRAIN"
StepFn(m) == IF m = "train" THEN "AT_TRAIN" ELSE "AT_VAL"

\* train.py:106-108  gradient tracking after the sweep's prologue
GradAtSweepBegin(m, g) == IF m = "val" THEN FALSE ELSE g

\* train.py:126-127  gradient tracking after the sweep's epilogue
GradAtSweepEnd_NoRestore(m, g) == g
GradAtSweepEnd(m, g) == IF m = "val" THEN TRUE ELSE g

\* train.py:130-135  namespace of a flushed metric
Namespace(m) == IF m = "train" THEN "train" ELSE "adv_val"
\* train.py:130-131  flushed keys that are written to the log
LoggedKeys(m) == {k \in FlushKeys(m) : k # "best_val"}

\* train.py:96-136  adv_learning has no return statement
AdvLearningReturn == None

\* train.py:197  `(epoch == 0) or (epoch + 1 % 10 == 0)`; % binds tighter than +
IntervalCond(e) == (e = 0) \/ (e + (1 % 10) = 0)

\* train.py:167-177  the optimizer main() builds
UsedOptimizer_Inverted(f) == IF f THEN "SAM" ELSE "SGD"
UsedOptimizer(f) == IF f THEN "SGD" ELSE "SAM"

\* Sharpness-aware optimizer (design 4.3)
SamAscend(o) == [o EXCEPT !.pending = TRUE, !.calls = Append(@, "ascend")]
SamDescend(o) == [o EXCEPT !.pending = FALSE, !.calls = Append(@, "descend")]
BaseStep(o) == [o EXCEPT !.calls = Append(o.calls, "step")]

\* -------------------------------------------------------------- Init
NoCall == [y |-> <<>>, pred |-> <<>>, adv_pred |-> <<>>]
NoRet == [done |-> FALSE]

MainStart ==
  /\ pc = "device"
  /\ device = Unbound
  /\ warned = FALSE
  /\ created = {}
  /\ epoch = 0
  /\ mode = "none"
  /\ batch_idx = 0
  /\ gradEnabled = TRUE
  /\ params = 0
  /\ sweepStart = [params |-> 0, calls |-> 0]
  /\ opt = [kind |-> Unbound, pending |-> FALSE, calls |-> <<>>]
  /\ lastStep = "none"
  /\ meters = [train |-> EmptyMeters, val |-> EmptyMeters]
  /\ flushed = None
  /\ results = Unbound
  /\ best_val = Unbound
  /\ scalars = EmptyBag
  /\ files = {}
  /\ events = <<>>
  /\ lrSteps = 0
  /\ valHist = <<>>

Init ==
  /\ MainStart
  /\ cuda \in BOOLEAN
  /\ sgd \in BOOLEAN
  /\ epochs \in 0..MaxEpochs
  /\ call = NoCall
  /\ ret = NoRet

\* ------------------------------------------------------------ main()
\* train.py:143-147
DeviceCheck ==
  /\ pc = "device"
  /\ IF cuda THEN device' = "cuda" /\ warned' = FALSE
             ELSE device' = device /\ warned' = TRUE
  /\ pc' = "paths"
  /\ UNCHANGED <<cuda, sgd, epochs, created, epoch, mode, batch_idx, gradEnabled,
                 params, sweepStart, opt, lastStep, meters, flushed, results,
                 best_val, scalars, files, events, lrSteps, valHist,
                 call, ret>>

\* train.py:149-157
CreateWriterAndDataset ==
  /\ pc = "paths"
  /\ created' = created \cup {"writer", "dataset"}
  /\ pc' = "model"
  /\ UNCHANGED <<cuda, sgd, epochs, device, warned, epoch, mode, batch_idx,
                 gradEnabled, params, sweepStart, opt, lastStep, meters, flushed,
                 results, best_val, scalars, files, events, lrSteps, valHist,
                 call, ret>>

\* train.py:158-162  WideResNet(...) is built, then `.to(device)` reads `device`:
\* an unbound local raises UnboundLocalError and main() ends.
CreateModel ==
  /\ pc = "model"
  /\ created' = created \cup {"model"}
  /\ pc' = IF device = Unbound THEN "aborted" ELSE "optim"
  /\ UNCHANGED <<cuda, sgd, epochs, device, warned, epoch, mode, batch_idx,
                 gradEnabled, params, sweepStart, opt, lastStep, meters, flushed,
                 results, best_val, scalars, files, events, lrSteps, valHist,
                 call, ret>>

\* train.py:164-181
CreateOptimizer ==
  /\ pc = "optim"
  /\ meters' = [train |-> EmptyMeters, val |-> EmptyMeters]
  /\ created' = created \cup {"optimizer", "scheduler"}
  /\ opt' = [kind |-> UsedOptimizer(sgd), pending |-> FALSE, calls |-> <<>>]
  /\ best_val' = <<0, 1>>
  /\ pc' = "loop"
  /\ UNCHANGED <<cuda, sgd, epochs, device, warned, epoch, mode, batch_idx,
                 gradEnabled, params, sweepStart, lastStep, flushed, results,
                 scalars, files, events, lrSteps, valHist,
                 call, ret>>

\* train.py:182-186  `for epoch in range(args.epochs)`, the best_val cache, and
\* the call of adv_learning("train", ...)
LoopHead ==
  /\ pc = "loop"
  /\ IF epoch < epochs
       THEN /\ meters' = [meters EXCEPT !.val.best = best_val]
            /\ mode' = "train"
            /\ pc' = "sweep_begin"
       ELSE /\ pc' = "done"
            /\ UNCHANGED <<meters, mode>>
  /\ UNCHANGED <<cuda, sgd, epochs, device, warned, created, epoch, batch_idx,
                 gradEnabled, params, sweepStart, opt, lastStep, flushed, results,
                 best_val, scalars, files, events, lrSteps, valHist,
                 call, ret>>

\* train.py:187-188  scheduler.step(), then the call of adv_learning("val", ...)
SchedulerStep ==
  /\ pc = "sched"
  /\ lrSteps' = lrSteps + 1
  /\ events' = Append(events, <<"sched_step", epoch>>)
  /\ mode' = "val"
  /\ pc' = "sweep_begin"
  /\ UNCHANGED <<cuda, sgd, epochs, device, warned, created, epoch, batch_idx,
                 gradEnabled, params, sweepStart, opt, lastStep, meters, flushed,
                 results, best_val, scalars, files, valHist, call, ret>>

\* train.py:190-198  the rest of the loop body.  `results["top1_accuracy"]` on
\* None raises TypeError and main() ends.
EpochTail ==
  /\ pc = "tail"
  /\ IF results = None
       THEN /\ pc' = "aborted"
            /\ UNCHANGED <<best_val, files, scalars, events, epoch>>
       ELSE LET improved == RatGt(results.top1_accuracy, best_val)
                best == IF improved THEN results.top1_accuracy ELSE best_val
                f1 == IF improved THEN files \cup {<<"best.pth", epoch>>} ELSE files
                ev1 == Append(events, <<"compare", epoch>>)
                ev2 == IF improved THEN Append(ev1, <<"best_save", epoch>>) ELSE ev1
            IN /\ best_val' = best
               /\ scalars' = scalars (+) SetToBag({<<"val", "best_val", epoch>>})
               /\ files' = IF IntervalCond(epoch)
                              THEN f1 \cup {<<"epoch_n.pth", epoch>>} ELSE f1
               /\ events' = Append(ev2, <<"periodic_decision", epoch>>)
               /\ epoch' = epoch + 1
               /\ pc' = "loop"
  /\ UNCHANGED <<cuda, sgd, epochs, device, warned, created, mode, batch_idx,
                 gradEnabled, params, sweepStart, opt, lastStep, meters, flushed,
                 results, lrSteps, valHist,
                 call, ret>>

\* ------------------------------------------------------ adv_learning()
\* train.py:106-108
SweepBegin ==
  /\ pc = "sweep_begin"
  /\ gradEnabled' = GradAtSweepBegin(mode, gradEnabled)
  /\ batch_idx' = 0
  /\ sweepStart' = [params |-> params, calls |-> Len(opt.calls)]
  /\ lastStep' = "none"
  /\ pc' = "batch"
  /\ UNCHANGED <<cuda, sgd, epochs, device, warned, created, epoch, mode, params,
                 opt, meters, flushed, results, best_val, scalars, files, events,
                 lrSteps, valHist,
                 call, ret>>

\* train.py:109-117  next batch of the loader, and the choice of the step function
BatchFetch ==
  /\ pc = "batch"
  /\ batch_idx < NumBatches
  /\ lastStep' = StepFn(mode)
  /\ pc' = "step"
  /\ UNCHANGED <<cuda, sgd, epochs, device, warned, created, epoch, mode, batch_idx,
                 gradEnabled, params, sweepStart, opt, meters, flushed, results,
                 best_val, scalars, files, events, lrSteps, valHist,
                 call, ret>>

\* AT_TRAIN, sharpness-aware optimizer: first pass and ascend (design 4.2, 1-4)
AtTrainAscend ==
  /\ pc = "step"
  /\ lastStep = "AT_TRAIN"
  /\ opt.kind = "SAM"
  /\ opt' = SamAscend(opt)
  /\ pc' = "second_pass"
  /\ UNCHANGED <<cuda, sgd, epochs, device, warned, created, epoch, mode, batch_idx,
                 gradEnabled, params, sweepStart, lastStep, meters, flushed, results,
                 best_val, scalars, files, events, lrSteps, valHist,
                 call, ret>>

\* AT_TRAIN, sharpness-aware optimizer: second pass and descend (design 4.2, 5-7)
AtTrainDescend ==
  /\ pc = "second_pass"
  /\ opt' = SamDescend(opt)
  /\ params' = params + 1
  /\ pc' = "cache"
  /\ UNCHANGED <<cuda, sgd, epochs, device, warned, created, epoch, mode, batch_idx,
                 gradEnabled, sweepStart, lastStep, meters, flushed, results,
                 best_val, scalars, files, events, lrSteps, valHist,
                 call, ret>>

\* AT_TRAIN, plain optimizer: one standard update (design 4.2, opt-out mode)
AtTrainSgd ==
  /\ pc = "step"
  /\ lastStep = "AT_TRAIN"
  /\ opt.kind = "SGD"
  /\ opt' = BaseStep(opt)
  /\ params' = params + 1
  /\ pc' = "cache"
  /\ UNCHANGED <<cuda, sgd, epochs, device, warned, created, epoch, mode, batch_idx,
                 gradEnabled, sweepStart, lastStep, meters, flushed, results,
                 best_val, scalars, files, events, lrSteps, valHist,
                 call, ret>>

\* AT_VAL: losses and predictions only (design 4.2, validation variant)
AtVal ==
  /\ pc = "step"
  /\ lastStep = "AT_VAL"
  /\ pc' = "cache"
  /\ UNCHANGED <<cuda, sgd, epochs, device, warned, created, epoch, mode, batch_idx,
                 gradEnabled, params, sweepStart, opt, lastStep, meters, flushed,
                 results, best_val, scalars, files, events, lrSteps, valHist,
                 call, ret>>

\* train.py:118-125  the loss caches and, every PrintEvery-th batch, the hit lists
\* calculate_acc_adv_acc caches (one sample per batch; its top-1 hit is drawn)
BatchCache ==
  /\ pc = "cache"
  /\ \E hit \in HitValues :
       LET mt == meters[mode]
           m1 == [mt EXCEPT !.loss_n = @ + 1]
           m2 == IF CachesAccuracy(batch_idx)
                   THEN [m1 EXCEPT !.topk_n = @ + 1, !.top1_sum = @ + hit]
                   ELSE m1
       IN meters' = [meters EXCEPT ![mode] = m2]
  /\ batch_idx' = batch_idx + 1
  /\ pc' = "batch"
  /\ UNCHANGED <<cuda, sgd, epochs, device, warned, created, epoch, mode,
                 gradEnabled, params, sweepStart, opt, lastStep, flushed, results,
                 best_val, scalars, files, events, lrSteps, valHist,
                 call, ret>>

\* train.py:126-136  the sweep's epilogue, the flush and the log records; then
\* the return to main() (train.py:186, 188)
SweepEnd ==
  /\ pc = "batch"
  /\ batch_idx = NumBatches
  /\ gradEnabled' = GradAtSweepEnd(mode, gradEnabled)
  /\ flushed' = FlushResult(meters[mode])
  /\ meters' = [meters EXCEPT ![mode] = FlushReset(@)]
  /\ scalars' = scalars (+) SetToBag({<<Namespace(mode), k, epoch>> : k \in LoggedKeys(mode)})
                        (+) SetToBag({<<mode, "lr", epoch>>})
  /\ IF mode = "train"
       THEN /\ events' = Append(events, <<"train_sweep", epoch>>)
            /\ results' = results
            /\ valHist' = valHist
            /\ pc' = "sched"
       ELSE /\ events' = Append(events, <<"val_sweep", epoch>>)
            /\ results' = AdvLearningReturn
            /\ valHist' = Append(valHist, flushed'.top1_accuracy)
            /\ pc' = "tail"
  /\ UNCHANGED <<cuda, sgd, epochs, device, warned, created, epoch, mode, batch_idx,
                 params, sweepStart, opt, lastStep, best_val, files, lrSteps,
                 call, ret>>

Next ==
  \/ DeviceCheck
  \/ CreateWriterAndDataset
  \/ CreateModel
  \/ CreateOptimizer
  \/ LoopHead
  \/ SweepBegin
  \/ BatchFetch
  \/ AtTrainAscend
  \/ AtTrainDescend
  \/ AtTrainSgd
  \/ AtVal
  \/ BatchCache
  \/ SweepEnd
  \/ SchedulerStep
  \/ EpochTail

Spec == Init /\ [][Next]_vars

\* ------------------------------------------- calculate_acc_adv_acc()
Classes == 1..NumClasses
ScoreVectors == [Classes -> ScoreValues]
\* a batch of one sample: labels y, predictions pred, adversarial predictions adv_pred
Batches == {[y |-> <<l>>, pred |-> <<p>>, adv_pred |-> <<a>>] :
              l \in Classes, p \in ScoreVectors, a \in ScoreVectors}

MaxScore(s) == CHOOSE v \in {s[c] : c \in Classes} : \A c \in Classes : s[c] <= v
\* torch.argmax(x, 1): the index of the first maximal value (train.py:62-63)
ArgMax(s) == LET mx == MaxScore(s)
             IN CHOOSE c \in Classes : s[c] = mx /\ \A d \in 1..(c - 1) : s[d] # mx
UniqueMax(s) == Cardinality({c \in Classes : s[c] = MaxScore(s)}) = 1

\* x.topk(5) (train.py:64-65) orders the classes by decreasing score; the order
\* among equal scores is not specified.  The ranks class l can take in that order:
TopkRanks(s, l) ==
  LET above == Cardinality({c \in Classes : s[c] > s[l]})
      equal == Cardinality({c \in Classes : s[c] = s[l]})
  IN (above + 1)..(above + equal)
\* the rank vectors of the labels l of a batch of score vectors x
RankVectors(x, l) ==
  {rk \in [1..Len(l) -> Classes] : \A i \in 1..Len(l) : rk[i] \in TopkRanks(x[i], l[i])}
\* train.py:66-69  top.t().eq(y.view(1,-1).expand_as(top)): row r, sample i is
\* TRUE iff the class of rank r of sample i is y[i]; rk[i] is the rank of y[i]
TopkEq(rk, n) == [r \in 1..TopN |-> [i \in 1..n |-> rk[i] = r]]

RECURSIVE RowSum(_, _, _)
RowSum(m, k, i) == IF k = 0 THEN 0 ELSE (IF m[k][i] THEN 1 ELSE 0) + RowSum(m, k - 1, i)
\* train.py:72-75  list(corrects[:k].float().sum(0))
HitList_Shifted(m, k, n) == [i \in 1..n |-> RowSum(m, k + 1, i) - RowSum(m, 1, i)]
HitList(m, k, n) == [i \in 1..n |-> RowSum(m, k, i)]

RECURSIVE SeqSum(_)
SeqSum(q) == IF q = <<>> THEN 0 ELSE Head(q) + SeqSum(Tail(q))
Ind(b) == IF b THEN 1 ELSE 0
\* train.py:79-80  x.float().mean(), as the rational <<sum, n>>
Mean(q) == <<SeqSum(q), Len(q)>>

\* train.py:60-81
CalculateAccAdvAcc ==
  /\ call # NoCall
  /\ ~ret.done
  /\ LET n == Len(call.y) IN
     \E rk \in RankVectors(call.pred, call.y), ark \in RankVectors(call.adv_pred, call.y) :
          LET adv_correct == [i \in 1..n |-> ArgMax(call.adv_pred[i]) = call.y[i]]
              correct == [i \in 1..n |-> ArgMax(call.pred[i]) = call.y[i]]
              top_adv_corrects == TopkEq(ark, n)
              corrects == TopkEq(rk, n)
          IN ret' = [done |-> TRUE,
                     correct |-> correct,
                     adv_correct |-> adv_correct,
                     acc_list |-> [k \in 1..MaxK |-> HitList(corrects, k, n)],
                     adv_acc_list |-> [k \in 1..MaxK |-> HitList(top_adv_corrects, k, n)],
                     accuracy |-> Mean([i \in 1..n |-> Ind(correct[i])]),
                     adv_accuracy |-> Mean([i \in 1..n |-> Ind(adv_correct[i])])]
  /\ UNCHANGED call
  /\ UNCHANGED mainVars

InitAcc ==
  /\ MainStart
  /\ cuda = TRUE
  /\ sgd = FALSE
  /\ epochs = 0
  /\ call \in Batches
  /\ ret = NoRet

NextAcc == CalculateAccAdvAcc

SpecAcc == InitAcc /\ [][NextAcc]_vars

\* ------------------------------------------------------------- claims
Ended == pc \in {"done", "aborted"}
Range(q) == {q[i] : i \in 1..Len(q)}
\* the validation sweep of epoch e has ended and main() is past the rest of
\* the loop body of epoch e
PastEpoch(e) == <<"val_sweep", e>> \in Range(events) /\ (Ended \/ epoch > e)
InSweep == pc \in {"batch", "step", "second_pass", "cache"}

\* best-so-far after the first n validation accuracies of h, starting from 0.0
RECURSIVE BestAfter(_, _)
BestAfter(h, n) ==
  IF n = 0 THEN <<0, 1>>
  ELSE IF RatGt(h[n], BestAfter(h, n - 1)) THEN h[n] ELSE BestAfter(h, n - 1)

\* C1: at the end of a run of main() every epoch has contributed its validation
\* top-1 accuracy, best_val is the running maximum of those accuracies starting
\* from 0.0, and best.pth was written in exactly the epochs whose accuracy
\* strictly exceeded the previous best.
C1_BestValTracker ==
  (cuda /\ Ended) =>
     /\ Len(valHist) = epochs
     /\ RatEq(best_val, BestAfter(valHist, Len(valHist)))
     /\ {e \in 0..MaxEpochs : <<"best.pth", e>> \in files}
          = {e \in 0..(Len(valHist) - 1) :
               RatGt(valHist[e + 1], BestAfter(valHist, e))}

\* C2: at the end of a 25-epoch run the periodic checkpoints epoch_<n> were
\* written exactly at epochs 0, 10 and 20.
C2_PeriodicCheckpoints ==
  (cuda /\ Ended /\ epochs = 25) =>
     {e \in 0..MaxEpochs : <<"epoch_n.pth", e>> \in files} = {0, 10, 20}

\* the events of epochs e..n-1 in the order of the loop body
RECURSIVE EpochEvents(_, _)
EpochEvents(e, n) ==
  IF e >= n THEN <<>>
  ELSE <<<<"train_sweep", e>>, <<"sched_step", e>>, <<"val_sweep", e>>,
         <<"compare", e>>, <<"periodic_decision", e>>>> \o EpochEvents(e + 1, n)
WithoutBestSave(q) == SelectSeq(q, LAMBDA x : x[1] # "best_save")
BestSaveInPlace(q) ==
  \A i \in 1..Len(q) :
     q[i][1] = "best_save" => i > 1 /\ q[i - 1] = <<"compare", q[i][2]>>

\* C3: at the end of a run, for every epoch 0..epochs-1 in turn, the training
\* sweep, the scheduler step, the validation sweep, the comparison with the
\* tracker (followed by the best-checkpoint write if improved) and the
\* periodic-checkpoint decision each occurred once, in this order.
C3_EpochOrder ==
  (cuda /\ Ended) =>
     /\ WithoutBestSave(events) = EpochEvents(0, epochs)
     /\ BestSaveInPlace(events)

\* C4: throughout a validation sweep, and at its end, gradient tracking is off
\* while batches are processed, the step function is AT_VAL, the optimizer has
\* not been called and the model parameters are those of the sweep's start.
C4_ValidationReadOnly ==
  (mode = "val" /\ (InSweep \/ pc = "tail")) =>
     /\ InSweep => ~gradEnabled
     /\ lastStep \in {"none", "AT_VAL"}
     /\ Len(opt.calls) = sweepStart.calls
     /\ ~opt.pending
     /\ params = sweepStart.params
C4_Witness ==
  mode = "val" /\ pc = "tail" /\ lastStep = "AT_VAL" /\ params = NumBatches

\* C5: with the sharpness-aware optimizer the calls alternate ascend, descend,
\* ascend, descend, ...; an ascend is pending exactly between the two passes of
\* AT_TRAIN, so none is pending when a training batch's AT_TRAIN has returned.
C5_AscendDescendAlternate ==
  ~sgd =>
     /\ \A i \in 1..Len(opt.calls) :
          opt.calls[i] = (IF i % 2 = 1 THEN "ascend" ELSE "descend")
     /\ opt.pending <=> (Len(opt.calls) % 2 = 1)
     /\ opt.pending <=> (pc = "second_pass")
C5_Witness ==
  ~sgd /\ pc = "cache" /\ mode = "train" /\ Len(opt.calls) = 2 * NumBatches

\* C6: the hit lists of every batch processed so far in a sweep are in the top-K
\* meters, so the flush covers the samples of all batches of the sweep.
C6_WholeEpochAccuracy ==
  /\ (pc = "batch" /\ mode \in {"train", "val"}) => meters[mode].topk_n = batch_idx
  /\ events # <<>> => flushed.samples = NumBatches

\* C7: without the accelerator main() stops at the device check: nothing is
\* created and nothing runs after it.
C7_FailFast ==
  (~cuda /\ pc # "device") => (pc = "aborted" /\ created = {})

\* C8: every sweep that has ended wrote each flushed metric except best_val once
\* at its epoch under its namespace, and <mode>/lr once; best_val is never
\* written under train/ or adv_val/; val/best_val is written once for every
\* epoch whose loop body main() has left, and never more than once.
SweepEnded(m, e) ==
  <<(IF m = "train" THEN "train_sweep" ELSE "val_sweep"), e>> \in Range(events)
C8_LogStream ==
  /\ \A e \in 0..MaxEpochs : \A m \in {"train", "val"} :
       /\ \A k \in LoggedKeys(m) :
            CopiesIn(<<Namespace(m), k, e>>, scalars) = (IF SweepEnded(m, e) THEN 1 ELSE 0)
       /\ CopiesIn(<<m, "lr", e>>, scalars) = (IF SweepEnded(m, e) THEN 1 ELSE 0)
       /\ CopiesIn(<<Namespace(m), "best_val", e>>, scalars) = 0
  /\ \A e \in 0..MaxEpochs :
       CopiesIn(<<"val", "best_val", e>>, scalars) = (IF PastEpoch(e) THEN 1 ELSE 0)

\* C9 as stated: for every batch, ties included, the cached top-1 hits equal
\* the argmax comparisons sample by sample, and their means are the returned
\* accuracies.
C9_Top1MatchesArgmax ==
  ret.done =>
     /\ \A i \in 1..Len(call.y) :
          /\ ret.acc_list[1][i] = Ind(ret.correct[i])
          /\ ret.adv_acc_list[1][i] = Ind(ret.adv_correct[i])
     /\ RatEq(Mean(ret.acc_list[1]), ret.accuracy)
     /\ RatEq(Mean(ret.adv_acc_list[1]), ret.adv_accuracy)

\* C9 amended: the same, for the samples whose maximal score is attained by one
\* class only.
AllUniqueMax(x) == \A i \in 1..Len(x) : UniqueMax(x[i])
C9_Top1MatchesArgmaxUniqueMax ==
  ret.done =>
     /\ \A i \in 1..Len(call.y) :
          /\ UniqueMax(call.pred[i]) => ret.acc_list[1][i] = Ind(ret.correct[i])
          /\ UniqueMax(call.adv_pred[i]) => ret.adv_acc_list[1][i] = Ind(ret.adv_correct[i])
     /\ AllUniqueMax(call.pred) => RatEq(Mean(ret.acc_list[1]), ret.accuracy)
     /\ AllUniqueMax(call.adv_pred) => RatEq(Mean(ret.adv_acc_list[1]), ret.adv_accuracy)
C9_Witness ==
  /\ ret.done
  /\ AllUniqueMax(call.pred) /\ AllUniqueMax(call.adv_pred)
  /\ ret.correct[1] /\ ~ret.adv_correct[1]
  /\ ret.acc_list[1][1] = 1 /\ ret.adv_acc_list[1][1] = 0

====
